---- MODULE Spec2Model ----
(***************************************************************************)
(* Token acquisition and caching layer of ms365-sharepoint:                *)
(*   src/src/token_cache.py        TokenCache (SQLite table token_cache)   *)
(*   src/src/trustyvault_client.py get_trustyvault_token and its errors    *)
(* The table is a set of rows; the clock is an integer number of seconds.  *)
(***************************************************************************)
EXTENDS Integers, FiniteSets, Sequences, TLC

\* ---------------------------------------------------------------- bounds
MaxTime == 2
MaxTTL == 1
NumCalls == 2
MaxResponses == 2
MaxSweeps == 2

\* ------------------------------------------------------- program constants
DEFAULT_EXPIRES_IN == 3600
CLEANUP_INTERVAL == 3600
HTTP_OK == 200

\* ------------------------------------------------------------ value sets
Sessions == {"s1", "s2"}
Providers == {"microsoft_graph", "other"}
AccessTokens == {"tokA", "tokB"}
\* the broker also hands out tokC, which the direct cache calls do not use
BrokerTokens == AccessTokens \cup {"tokC"}
RefreshTokens == {"ref"}
Absent == "<absent>"
NoneValue == "<None>"
Times == 0..MaxTime
TTLs == 0..MaxTTL
Calls == 1..NumCalls

\* ------------------------------------------------------------- variables
VARIABLES token_cache, now, calls, responded, fetched, last, unswept, server

vars == <<token_cache, now, calls, responded, fetched, last, unswept, server>>

\* ------------------------------------------------- token_cache.py: table
\* CREATE TABLE token_cache (session_token TEXT PRIMARY KEY, ...)
PrimaryKey(r) == r.session_token

\* a row as INSERT writes it at time t; the column created_at, which gets the
\* same default as last_used_at and is never read or updated, is left out
Row(s, tok, ref, upn, p, exp, t) ==
    [session_token |-> s, access_token |-> tok, refresh_token |-> ref,
     microsoft_upn |-> upn, provider |-> p, expires_at |-> exp,
     last_used_at |-> t]

InsertOrIgnore(rows, r) ==
    IF \E x \in rows : x.session_token = r.session_token THEN rows
    ELSE rows \cup {r}

InsertOrKeepLatestExpiry(rows, r) ==
    IF \E q \in rows : PrimaryKey(q) = PrimaryKey(r) /\ q.expires_at > r.expires_at
    THEN rows
    ELSE {q \in rows : PrimaryKey(q) # PrimaryKey(r)} \cup {r}

\* INSERT OR REPLACE: rows in conflict on the primary key are deleted first
InsertOrReplace(rows, r) ==
    {x \in rows : PrimaryKey(x) # PrimaryKey(r)} \cup {r}

SelectNotAfter(rows, s, p, t) ==
    {r \in rows : r.session_token = s /\ r.provider = p /\ r.expires_at >= t}

SelectExpired(rows, s, p, t) ==
    {r \in rows : r.session_token = s /\ r.provider = p /\ r.expires_at < t}

\* SELECT ... WHERE session_token = ? AND provider = ? AND expires_at > ?
SelectValidBySession(rows, s, p, t) ==
    {r \in rows : r.session_token = s /\ r.expires_at > t}

SelectValid(rows, s, p, t) ==
    {r \in rows : r.session_token = s /\ r.provider = p /\ r.expires_at > t}

TouchEveryRow(rows, s, p, t) ==
    {[r EXCEPT !.last_used_at = t] : r \in rows}

\* UPDATE token_cache SET last_used_at = now WHERE session_token = ? AND provider = ?
TouchLastUsed(rows, s, p, t) ==
    {IF r.session_token = s /\ r.provider = p
        THEN [r EXCEPT !.last_used_at = t] ELSE r : r \in rows}

NoRow == Row(Absent, Absent, Absent, Absent, Absent, -1, -1)
NoResult == [access_token |-> Absent, refresh_token |-> Absent, microsoft_upn |-> Absent]

getEvictingExpired(rows, s, p, t) ==
    LET sel == SelectValid(rows, s, p, t) IN
    IF sel # {}
    THEN LET row == CHOOSE r \in sel : TRUE IN
         [rows |-> TouchLastUsed(rows, s, p, t),
          hit |-> TRUE,
          row |-> row,
          result |-> [access_token |-> row.access_token,
                      refresh_token |-> row.refresh_token,
                      microsoft_upn |-> row.microsoft_upn]]
    ELSE [rows |-> {r \in rows : ~(r.session_token = s /\ r.provider = p)},
          hit |-> FALSE, row |-> NoRow, result |-> NoResult]

\* TokenCache.get: the rows after the call, the row fetched and the dict returned
get(rows, s, p, t) ==
    LET sel == SelectValid(rows, s, p, t) IN
    IF sel # {}
    THEN LET row == CHOOSE r \in sel : TRUE IN
         [rows |-> TouchLastUsed(rows, s, p, t),
          hit |-> TRUE,
          row |-> row,
          result |-> [access_token |-> row.access_token,
                      refresh_token |-> row.refresh_token,
                      microsoft_upn |-> row.microsoft_upn]]
    ELSE [rows |-> rows, hit |-> FALSE, row |-> NoRow, result |-> NoResult]

setExpiresAtTTL(rows, s, tok, ref, upn, ttl, p, t) ==
    InsertOrReplace(rows, Row(s, tok, ref, upn, p, ttl, t))

\* TokenCache.set
set(rows, s, tok, ref, upn, ttl, p, t) ==
    InsertOrReplace(rows, Row(s, tok, ref, upn, p, t + ttl, t))

deleteBySession(rows, s, p) ==
    {r \in rows : r.session_token # s}

\* TokenCache.delete
delete(rows, s, p) ==
    {r \in rows : ~(r.session_token = s /\ r.provider = p)}

ExpiredForCleanupAfterGrace(r, t) == r.expires_at + 24 * CLEANUP_INTERVAL < t

ExpiredForCleanupWithMargin(r, t) == r.expires_at <= t + 1

ExpiredForCleanupInverted(r, t) == r.expires_at > t

\* TokenCache.cleanup_expired: DELETE FROM token_cache WHERE expires_at < ?
ExpiredForCleanup(r, t) == r.expires_at < t

cleanup_expired(rows, t) ==
    [rows |-> {r \in rows : ~ExpiredForCleanup(r, t)},
     deleted_count |-> Cardinality({r \in rows : ExpiredForCleanup(r, t)})]

get_statsStrictlyBefore(rows, t) ==
    LET total == Cardinality(rows)
        expired == Cardinality({r \in rows : r.expires_at < t})
    IN [total_tokens |-> total, expired_tokens |-> expired,
        valid_tokens |-> total - expired]

\* TokenCache.get_stats
get_stats(rows, t) ==
    LET total == Cardinality(rows)
        expired == Cardinality({r \in rows : r.expires_at <= t})
    IN [total_tokens |-> total, expired_tokens |-> expired,
        valid_tokens |-> total - expired]

\* health_check: the "cache" entry of the dictionary it returns
health_check(rows, t) ==
    LET stats == get_stats(rows, t) IN
    [total_tokens |-> stats.total_tokens,
     valid_tokens |-> stats.valid_tokens,
     expired_tokens |-> stats.expired_tokens]

\* ------------------------------------- trustyvault_client.py: exceptions
TruthyNotNone(x) == x \notin {Absent, NoneValue}

TruthyAlways(x) == TRUE

\* Python truth of an optional string: None and "" are false
Truthy(x) == x \notin {"", Absent, NoneValue}

NoCallResult ==
    [kind |-> "none", exc |-> Absent, error_code |-> Absent,
     message |-> Absent, status_code |-> 0, value |-> Absent]

Return(v) == [NoCallResult EXCEPT !.kind = "return", !.value = v]

\* an exception that is not a TrustyVaultError
Raise(e) == [NoCallResult EXCEPT !.kind = "raise", !.exc = e]

\* class TrustyVaultError(error_code, message, status_code)
TrustyVaultError(code, msg, status) ==
    [NoCallResult EXCEPT !.kind = "raise", !.exc = "TrustyVaultError",
                         !.error_code = code, !.message = msg,
                         !.status_code = status]

\* ------------------------------------------- what the broker can answer
BrokerCodes == {"unauthorized", "TIMEOUT"}
BrokerMessages == {"bad api key"}
Statuses == {HTTP_OK, 401}

Body(json, detail, err, msg, tok, ref, ttl) ==
    [json |-> json, detail |-> detail, error |-> err, message |-> msg,
     access_token |-> tok, refresh_token |-> ref, expires_in_seconds |-> ttl]

\* a body that is not JSON, a JSON array, and JSON objects: a credential
\* object (any of its keys may be missing), {"detail": "<text>"} and
\* {"detail": {"error": .., "message": ..}} (either key may be missing).
\* expires_in_seconds is <<>> when the key is missing, <<n>> otherwise.
\* The broker sends tokA with a refresh token and tokB without one.
RefreshOf(tok) == IF tok = "tokA" THEN "ref" ELSE Absent

Bodies ==
    {Body("invalid", Absent, Absent, Absent, Absent, Absent, <<>>),
     Body("array", Absent, Absent, Absent, Absent, Absent, <<>>),
     Body("object", "string", Absent, Absent, Absent, Absent, <<>>)}
    \cup {Body("object", "map", e, m, Absent, Absent, <<>>) :
            e \in BrokerCodes \cup {Absent}, m \in BrokerMessages \cup {Absent}}
    \cup {Body("object", Absent, Absent, Absent, tok, Absent, <<>>) :
            tok \in {"", Absent}}
    \cup {Body("object", Absent, Absent, Absent, tok, RefreshOf(tok), ttl) :
            tok \in AccessTokens,
            ttl \in {<<>>} \cup {<<n>> : n \in TTLs}}
    \cup {Body("object", Absent, Absent, Absent, tok, RefreshOf(tok), <<>>) :
            tok \in BrokerTokens}

NoBody == Body(Absent, Absent, Absent, Absent, Absent, Absent, <<>>)

\* the outcome of client.post: a transport exception or a response. A 200
\* comes with any body but a coded error, a rejection with any body but a
\* credential
Outcomes ==
    {[kind |-> k, status_code |-> 0, body |-> NoBody] :
        k \in {"timeout", "connect_error"}}
    \cup {[kind |-> "response", status_code |-> HTTP_OK, body |-> b] :
            b \in {x \in Bodies : x.error = Absent}}
    \cup {[kind |-> "response", status_code |-> st, body |-> b] :
            st \in Statuses \ {HTTP_OK},
            b \in {x \in Bodies : x.access_token = Absent}}

\* the outcomes that differ in what they do to the cache: a transport
\* failure, a rejection, a success with an empty access token, and the
\* successes without a TTL or with a short one
CacheOutcomes ==
    {o \in Outcomes :
        \/ o.kind = "timeout"
        \/ /\ o.kind = "response" /\ o.status_code = HTTP_OK
           /\ o.body.json = "object" /\ o.body.detail = Absent
           /\ o.body.access_token = ""
        \/ /\ o.kind = "response" /\ o.status_code # HTTP_OK
           /\ o.body.error = "unauthorized" /\ o.body.message # Absent
        \/ /\ o.kind = "response" /\ o.status_code = HTTP_OK
           /\ o.body.access_token \in AccessTokens
           /\ o.body.expires_in_seconds \in {<<>>, <<MaxTTL>>}}

NoOutcome == [kind |-> "none", status_code |-> 0, body |-> NoBody]

\* ------------------------------------------------------ decode_jwt_upn
NoClaims ==
    [decodable |-> FALSE, upn |-> Absent, preferred_username |-> Absent,
     email |-> Absent, unique_name |-> Absent]

\* jwt.decode(access_token, options={"verify_signature": False}) on the
\* tokens the broker hands out: tokA carries a upn claim, tokC is a JWT
\* with none of the four claims, tokB is not a JWT
JwtDecode(tok) ==
    IF tok = "tokA"
    THEN [NoClaims EXCEPT !.decodable = TRUE, !.upn = "alice@contoso.com"]
    ELSE IF tok = "tokC" THEN [NoClaims EXCEPT !.decodable = TRUE]
    ELSE NoClaims

LastTruthy(seq) ==
    LET idx == {i \in 1..Len(seq) : Truthy(seq[i])} IN
    IF idx = {} THEN seq[Len(seq)]
    ELSE seq[CHOOSE i \in idx : \A j \in idx : i >= j]

\* a or b or c or d
FirstTruthy(seq) ==
    LET idx == {i \in 1..Len(seq) : Truthy(seq[i])} IN
    IF idx = {} THEN seq[Len(seq)]
    ELSE seq[CHOOSE i \in idx : \A j \in idx : i <= j]

UpnOfPayloadOrNone(decoded) ==
    IF ~decoded.decodable THEN Raise("ValueError")
    ELSE Return(FirstTruthy(<<decoded.upn, decoded.preferred_username,
                              decoded.email, decoded.unique_name>>))

\* decode_jwt_upn after jwt.decode: the payload's claims, or the ValueError
\* that the two except clauses make of a failure to decode and of the
\* ValueError raised when no claim is found
UpnOfPayload(decoded) ==
    IF ~decoded.decodable THEN Raise("ValueError")
    ELSE LET upn == FirstTruthy(<<decoded.upn, decoded.preferred_username,
                                  decoded.email, decoded.unique_name>>) IN
         IF ~Truthy(upn) THEN Raise("ValueError") ELSE Return(upn)

decode_jwt_upn(tok) == UpnOfPayload(JwtDecode(tok))

\* ------------------------------------------------ get_trustyvault_token
\* httpx.TimeoutException is a subclass of httpx.RequestError
IsTimeoutException(e) == e = "httpx.TimeoutException"
IsRequestError(e) == e \in {"httpx.TimeoutException", "httpx.ConnectError"}

\* error_data = response.json(); error_data.get("detail", {}); .get("error", ..)
ErrorResponse(resp) ==
    LET b == resp.body IN
    IF b.json = "invalid" THEN Raise("JSONDecodeError")
    ELSE IF b.json = "array" THEN Raise("AttributeError")
    ELSE IF b.detail = "string" THEN Raise("AttributeError")
    ELSE TrustyVaultError(
            IF b.error = Absent THEN "unknown_error" ELSE b.error,
            IF b.message = Absent THEN "Unknown error from TrustyVault"
                                  ELSE b.message,
            resp.status_code)

ExtractUpnOrNone(access_token) ==
    LET decoded == decode_jwt_upn(access_token) IN
    IF decoded.kind = "raise" THEN NoneValue ELSE decoded.value

\* try: microsoft_upn = decode_jwt_upn(access_token)
\* except Exception: microsoft_upn = "unknown"
ExtractUpn(access_token) ==
    LET decoded == decode_jwt_upn(access_token) IN
    IF decoded.kind = "raise" THEN "unknown" ELSE decoded.value

NoArgs == [access_token |-> Absent, refresh_token |-> Absent,
           microsoft_upn |-> Absent, expires_in_seconds |-> 0]

\* the body of the try block once client.post has given its outcome o: the
\* result, the rows afterwards, whether cache.set was called and with what
TryBody(o, s, p, rows, t) ==
    LET keep(r) == [result |-> r, rows |-> rows, stored |-> FALSE,
                    args |-> NoArgs] IN
    IF o.kind = "timeout" THEN keep(Raise("httpx.TimeoutException"))
    ELSE IF o.kind = "connect_error" THEN keep(Raise("httpx.ConnectError"))
    ELSE IF o.status_code # HTTP_OK THEN keep(ErrorResponse(o))
    ELSE LET b == o.body IN
         IF b.json = "invalid" THEN keep(Raise("JSONDecodeError"))
         ELSE IF b.json = "array" THEN keep(Raise("AttributeError"))
         ELSE LET access_token == IF b.access_token = Absent THEN NoneValue
                                  ELSE b.access_token
                  refresh_token == IF b.refresh_token = Absent THEN NoneValue
                                   ELSE b.refresh_token
                  expires_in == IF b.expires_in_seconds = <<>>
                                THEN DEFAULT_EXPIRES_IN
                                ELSE b.expires_in_seconds[1]
                  microsoft_upn == ExtractUpn(access_token)
              IN IF ~Truthy(access_token)
                 THEN keep(TrustyVaultError("INVALID_RESPONSE",
                              "TrustyVault returned no access_token", 500))
                 ELSE [result |-> Return(access_token),
                       rows |-> set(rows, s, access_token, refresh_token,
                                    microsoft_upn, expires_in, p, t),
                       stored |-> TRUE,
                       args |-> [access_token |-> access_token,
                                 refresh_token |-> refresh_token,
                                 microsoft_upn |-> microsoft_upn,
                                 expires_in_seconds |-> expires_in]]

ExceptAny(r) ==
    IF r.kind = "raise"
    THEN TrustyVaultError("CONNECTION_ERROR",
            "Could not connect to TrustyVault: <e>", 503)
    ELSE r

ExceptRequestErrorFirst(r) ==
    IF r.kind = "raise" /\ IsRequestError(r.exc)
    THEN TrustyVaultError("CONNECTION_ERROR",
            "Could not connect to TrustyVault: <e>", 503)
    ELSE IF r.kind = "raise" /\ IsTimeoutException(r.exc)
    THEN TrustyVaultError("TIMEOUT",
            "TrustyVault request timed out after 10 seconds", 504)
    ELSE r

\* except httpx.TimeoutException / except httpx.RequestError
ExceptClauses(r) ==
    IF r.kind = "raise" /\ IsTimeoutException(r.exc)
    THEN TrustyVaultError("TIMEOUT",
            "TrustyVault request timed out after 10 seconds", 504)
    ELSE IF r.kind = "raise" /\ IsRequestError(r.exc)
    THEN TrustyVaultError("CONNECTION_ERROR",
            "Could not connect to TrustyVault: <e>", 503)
    ELSE r

\* ------------------------------------------- the tools of main.py
\* the dictionaries the tools return
NoDict ==
    [success |-> FALSE, error |-> Absent, message |-> Absent,
     details |-> [trustyvault_error |-> Absent, status_code |-> 0],
     data |-> Absent]

\* error_messages of format_trustyvault_error
error_messages ==
    [code \in {"session_expired", "invalid_session", "unauthorized",
               "provider_not_configured", "TIMEOUT", "CONNECTION_ERROR"} |->
        CASE code = "session_expired" ->
                "Your TrustyVault session has expired. "
                    \o "Please unlock TrustyVault again with verify_otp."
          [] code = "invalid_session" ->
                "Invalid session token. "
                    \o "Please unlock TrustyVault with verify_otp to get a new session."
          [] code = "unauthorized" ->
                "MCP server authentication failed. "
                    \o "Contact your administrator (invalid TrustyVault API key)."
          [] code = "provider_not_configured" ->
                "Microsoft 365 is not configured in your TrustyVault. "
                    \o "Please add Microsoft 365 credentials in the TrustyVault dashboard."
          [] code = "TIMEOUT" ->
                "TrustyVault is not responding. "
                    \o "Please try again in a moment."
          [] code = "CONNECTION_ERROR" ->
                "Could not connect to TrustyVault. "
                    \o "Please check your internet connection or try again later."]

format_trustyvault_errorGeneric(error) ==
    [NoDict EXCEPT
        !.error = "trustyvault_error",
        !.message = "TrustyVault error: " \o error.message,
        !.details = [trustyvault_error |-> error.message,
                     status_code |-> error.status_code]]

format_trustyvault_error(error) ==
    [NoDict EXCEPT
        !.error = error.error_code,
        !.message = IF error.error_code \in DOMAIN error_messages
                    THEN error_messages[error.error_code]
                    ELSE "TrustyVault error: " \o error.message,
        !.details = [trustyvault_error |-> error.message,
                     status_code |-> error.status_code]]

\* the names main.py binds at module level
ModuleNames ==
    {"os", "logging", "asyncio", "FastAPI", "CORSMiddleware", "FastMCP",
     "Field", "SharePointOperations", "APIKeyAuthProvider",
     "get_trustyvault_token", "format_trustyvault_error", "decode_jwt_upn",
     "TrustyVaultError", "get_cache", "logger", "auth_provider", "mcp",
     "sp_ops", "app", "mcp_app", "Annotated", "Optional", "Dict",
     "get_site_info_workflow", "list_items_workflow", "create_item_workflow",
     "cleanup_expired_tokens_task", "startup_event", "health_check", "root",
     "users_get_profile", "users_search", "users_list"}

\* except Exception as e: return {"success": False, "error": str(e)}
ErrorDict(text) == [NoDict EXCEPT !.error = text]

NoTool ==
    [name |-> Absent, resolution |-> NoCallResult, operation |-> NoDict,
     outcome |-> "none", executed |-> 0, access_token |-> Absent,
     microsoft_user |-> Absent, result |-> NoDict]

\* users_get_profile, users_search, users_list: the try block and its two
\* except clauses. resolution is what get_trustyvault_token returns or
\* raises, operation what the operations layer would return
Tool(name, resolution, operation) ==
    LET begun == [NoTool EXCEPT !.name = name, !.resolution = resolution,
                                !.operation = operation,
                                !.outcome = "returned"] IN
    IF resolution.kind = "raise" /\ resolution.exc = "TrustyVaultError"
    THEN [begun EXCEPT !.result = format_trustyvault_error(resolution)]
    ELSE IF resolution.kind = "raise"
    THEN [begun EXCEPT !.result = ErrorDict(resolution.exc)]
    ELSE LET access_token == resolution.value
             microsoft_user == decode_jwt_upn(access_token) IN
         IF microsoft_user.kind = "raise"
         THEN [begun EXCEPT !.result = ErrorDict(microsoft_user.exc)]
         ELSE IF "user_ops" \notin ModuleNames
         THEN [begun EXCEPT
                !.result = ErrorDict("name 'user_ops' is not defined")]
         ELSE [begun EXCEPT !.executed = 1,
                            !.access_token = access_token,
                            !.microsoft_user = microsoft_user.value,
                            !.result = operation]

\* ------------------------------------------------------------ the state
NoFetch == [session_token |-> Absent, provider |-> Absent,
            access_token |-> Absent, expires_at |-> -1]

NoStats == [total_tokens |-> 0, expired_tokens |-> 0, valid_tokens |-> 0]

\* the last operation: its arguments, what it returned and what it wrote
NoOp ==
    [op |-> "init", session_token |-> Absent, provider |-> Absent, at |-> 0,
     wrote |-> FALSE, access_token |-> Absent, refresh_token |-> Absent,
     microsoft_upn |-> Absent, expires_in_seconds |-> 0, replaced |-> FALSE,
     hit |-> FALSE, row |-> NoRow, result |-> NoResult,
     deleted_count |-> 0, stats |-> NoStats,
     finished |-> FALSE, requests |-> 0, outcome |-> NoOutcome,
     returned |-> NoCallResult, cached |-> Absent, expected |-> Absent,
     overtaken |-> FALSE, failed |-> FALSE, health |-> NoStats,
     claims |-> NoClaims, tool |-> NoTool]

\* overtaken: another call wrote a record for the same key while this one
\* was waiting for the broker
IdleCall ==
    [pc |-> "idle", session_token |-> Absent, provider |-> Absent,
     cached |-> Absent, expected |-> Absent, overtaken |-> FALSE]

IsAwaiting(call) == call.pc = "awaiting"

\* the calls in progress, in the order they began; a call that has returned
\* leaves no trace among them
Pending(cs) ==
    LET waiting == SelectSeq(cs, IsAwaiting) IN
    [c \in Calls |-> IF c <= Len(waiting) THEN waiting[c] ELSE IdleCall]

RowsOf(rows, s, p) == {r \in rows : r.session_token = s /\ r.provider = p}

SleepUntilNextHour(t) == ((t \div CLEANUP_INTERVAL) + 1) * CLEANUP_INTERVAL

\* asyncio.sleep(3600) entered at t returns at
SleepUntil(t) == t + CLEANUP_INTERVAL

\* the process before startup_event has run
Booting ==
    [phase |-> "starting", janitor |-> "none", started_at |-> 0, wake_at |-> 0,
     attempts |-> 0, attempt_at |-> 0, failures |-> 0]

\* the process serving, startup_event having returned at time 0: the
\* janitor task is in its first sleep
Serving ==
    [Booting EXCEPT !.phase = "serving", !.janitor = "sleeping",
                    !.wake_at = SleepUntil(0)]

\* the serving process with an empty database
Init ==
    /\ token_cache = {}
    /\ now = 0
    /\ calls = [c \in Calls |-> IdleCall]
    /\ responded = 0
    /\ fetched = NoFetch
    /\ last = NoOp
    /\ unswept = {}
    /\ server = Serving

\* ------------------------------------------------------------- actions
OpOf(name, s, p, t) ==
    [NoOp EXCEPT !.op = name, !.session_token = s, !.provider = p, !.at = t]

\* what cache.get returned
WithGet(o, g) == [o EXCEPT !.hit = g.hit, !.row = g.row, !.result = g.result]

\* a record of (s, p) that differs from the new one in every field
Differs(rows, s, p, a, exp) ==
    \E r \in RowsOf(rows, s, p) :
        /\ r.access_token # a.access_token
        /\ r.refresh_token # a.refresh_token
        /\ r.microsoft_upn # a.microsoft_upn
        /\ r.expires_at # exp

\* the arguments cache.set was called with at time t, on the rows before it
WithSet(o, rows, a, t) ==
    [o EXCEPT !.wrote = TRUE,
              !.access_token = a.access_token,
              !.refresh_token = a.refresh_token,
              !.microsoft_upn = a.microsoft_upn,
              !.expires_in_seconds = a.expires_in_seconds,
              !.replaced = Differs(rows, o.session_token, o.provider, a,
                                   t + a.expires_in_seconds)]

\* the access token of the record of (s, p) that is valid at t, if any
ValidToken(rows, s, p, t) ==
    LET v == {r \in rows : /\ r.session_token = s
                           /\ r.provider = p
                           /\ r.expires_at > t} IN
    IF v = {} THEN Absent ELSE (CHOOSE r \in v : TRUE).access_token

\* the token of the fetch that is followed, when it is for (s, p) and its
\* stored expiry lies after t
FetchedToken(s, p, t) ==
    IF fetched.session_token = s /\ fetched.provider = p /\ t < fetched.expires_at
    THEN fetched.access_token ELSE Absent

\* one stored fetch is followed until its stored expiry: a fetch that is
\* stored for (s, p) at t takes its place when none is followed, when the
\* one followed has expired or when it is for (s, p) too
Follows(s, p, t) ==
    \/ fetched.access_token = Absent
    \/ t >= fetched.expires_at
    \/ fetched.session_token = s /\ fetched.provider = p

PostCallsRetryOnTimeout(o) == IF o.kind = "timeout" THEN 2 ELSE 1

\* client.post calls made by one pass through the try block
PostCalls(o) == 1

\* get_trustyvault_token, lines 66-75: the cache lookup
Start(c, s, p) ==
    /\ calls[c].pc = "idle"
    /\ \A d \in Calls : d < c => calls[d].pc # "idle"
    /\ LET g == get(token_cache, s, p, now)
           hit == g.hit /\ Truthy(g.result.access_token)
           cached == ValidToken(token_cache, s, p, now)
           expected == FetchedToken(s, p, now)
           o == WithGet(OpOf("get_trustyvault_token", s, p, now), g)
       IN /\ token_cache' = g.rows
          /\ calls' = [calls EXCEPT ![c] =
                IF hit THEN IdleCall
                ELSE [pc |-> "awaiting", session_token |-> s, provider |-> p,
                      cached |-> cached, expected |-> expected,
                      overtaken |-> FALSE]]
          /\ last' = IF hit
                     THEN [o EXCEPT !.finished = TRUE,
                                    !.returned = Return(g.result.access_token),
                                    !.cached = cached,
                                    !.expected = expected]
                     ELSE o
    /\ unswept' = get(unswept, s, p, now).rows
    /\ UNCHANGED <<now, responded, fetched, server>>

\* get_trustyvault_token, lines 77-161: the request, its outcome, the
\* parsing of the response, cache.set and the except clauses
Respond(c, o) ==
    /\ calls[c].pc = "awaiting"
    /\ responded < MaxResponses
    /\ responded' = responded + 1
    /\ LET s == calls[c].session_token
           p == calls[c].provider
           body == TryBody(o, s, p, token_cache, now)
           done == [OpOf("get_trustyvault_token", s, p, now) EXCEPT
                        !.finished = TRUE,
                        !.requests = PostCalls(o),
                        !.outcome = o,
                        !.returned = ExceptClauses(body.result),
                        !.cached = calls[c].cached,
                        !.expected = calls[c].expected,
                        !.overtaken = calls[c].overtaken]
       IN /\ token_cache' = body.rows
          /\ calls' = Pending([d \in Calls |->
                IF d = c THEN IdleCall
                ELSE IF /\ body.stored
                        /\ calls[d].pc = "awaiting"
                        /\ calls[d].session_token = s
                        /\ calls[d].provider = p
                THEN [calls[d] EXCEPT !.overtaken = TRUE]
                ELSE calls[d]])
          /\ fetched' =
                IF body.stored /\ Follows(s, p, now)
                THEN [session_token |-> s, provider |-> p,
                      access_token |-> body.args.access_token,
                      expires_at |-> now + body.args.expires_in_seconds]
                ELSE fetched
          /\ last' = IF body.stored
                     THEN WithSet(done, token_cache, body.args, now)
                     ELSE done
          /\ unswept' = TryBody(o, s, p, unswept, now).rows
    /\ UNCHANGED <<now, server>>

\* TokenCache.set called directly
CacheSet(s, a, ttl, p) ==
    /\ token_cache' = set(token_cache, s, a.access_token, a.refresh_token,
                          a.microsoft_upn, ttl, p, now)
    /\ last' = WithSet(OpOf("set", s, p, now), token_cache,
                       [a EXCEPT !.expires_in_seconds = ttl], now)
    /\ unswept' = set(unswept, s, a.access_token, a.refresh_token,
                      a.microsoft_upn, ttl, p, now)
    /\ UNCHANGED <<now, calls, responded, fetched, server>>

\* TokenCache.get called directly
CacheGet(s, p) ==
    /\ LET g == get(token_cache, s, p, now)
       IN /\ token_cache' = g.rows
          /\ last' = WithGet(OpOf("get", s, p, now), g)
    /\ unswept' = get(unswept, s, p, now).rows
    /\ UNCHANGED <<now, calls, responded, fetched, server>>

\* TokenCache.delete
Delete(s, p) ==
    /\ token_cache' = delete(token_cache, s, p)
    /\ fetched' = IF fetched.session_token = s /\ fetched.provider = p
                  THEN NoFetch ELSE fetched
    /\ last' = [OpOf("delete", s, p, now) EXCEPT
                    !.deleted_count = Cardinality(RowsOf(token_cache, s, p))]
    /\ unswept' = delete(unswept, s, p)
    /\ UNCHANGED <<now, calls, responded, server>>

\* TokenCache.cleanup_expired (startup_event and cleanup_expired_tokens_task)
CleanupExpired ==
    /\ LET r == cleanup_expired(token_cache, now)
       IN /\ token_cache' = r.rows
          /\ last' = [OpOf("cleanup_expired", Absent, Absent, now) EXCEPT
                        !.deleted_count = r.deleted_count]
    /\ UNCHANGED <<now, calls, responded, fetched, unswept, server>>

\* TokenCache.get_stats (health_check)
GetStats ==
    /\ last' = [OpOf("get_stats", Absent, Absent, now) EXCEPT
                    !.stats = get_stats(token_cache, now),
                    !.health = health_check(token_cache, now)]
    /\ UNCHANGED <<token_cache, now, calls, responded, fetched, unswept, server>>

\* the clock advances by one second
Tick ==
    /\ now < MaxTime
    /\ now' = now + 1
    /\ UNCHANGED <<token_cache, calls, responded, fetched, last, unswept, server>>

\* startup_event: the sweep at startup, then the janitor task is created.
\* ok is FALSE when get_cache or cleanup_expired raises; nothing catches it
\* here, so startup_event raises and the server does not start
Startup(ok) ==
    /\ server.phase = "starting"
    /\ LET r == cleanup_expired(token_cache, now)
       IN IF ok
          THEN /\ token_cache' = r.rows
               /\ server' = [server EXCEPT !.phase = "serving",
                                            !.janitor = "sleeping",
                                            !.started_at = now,
                                            !.wake_at = SleepUntil(now)]
               /\ last' = [OpOf("startup_event", Absent, Absent, now) EXCEPT
                                !.deleted_count = r.deleted_count]
          ELSE /\ token_cache' = token_cache
               /\ server' = [server EXCEPT !.phase = "failed"]
               /\ last' = [OpOf("startup_event", Absent, Absent, now) EXCEPT
                                !.failed = TRUE]
    /\ UNCHANGED <<now, calls, responded, fetched, unswept>>

\* a tool of main.py is called: the server takes requests once startup has
\* completed
Serve(c, s, p) ==
    /\ server.phase = "serving"
    /\ Start(c, s, p)

\* the janitor's asyncio.sleep(3600) returns
SleepElapses ==
    /\ server.phase = "serving"
    /\ server.janitor = "sleeping"
    /\ server.attempts < MaxSweeps
    /\ now < server.wake_at
    /\ now' = server.wake_at
    /\ UNCHANGED <<token_cache, calls, responded, fetched, last, unswept, server>>

AfterSweepEndOnFailure(ok) == IF ok THEN "sleeping" ELSE "ended"

\* while True: try: ... except Exception: logger.error(...)
AfterSweep(ok) == "sleeping"

\* cleanup_expired_tokens_task, one pass of the loop after its sleep. ok is
\* FALSE when get_cache or cleanup_expired raises
JanitorSweep(ok) ==
    /\ server.phase = "serving"
    /\ server.janitor = "sleeping"
    /\ server.attempts < MaxSweeps
    /\ now = server.wake_at
    /\ LET r == cleanup_expired(token_cache, now)
       IN /\ token_cache' = IF ok THEN r.rows ELSE token_cache
          /\ last' = [OpOf("cleanup_expired_tokens_task", Absent, Absent, now)
                        EXCEPT !.deleted_count = IF ok THEN r.deleted_count ELSE 0,
                               !.failed = ~ok]
    /\ server' = [server EXCEPT !.janitor = AfterSweep(ok),
                                 !.wake_at = SleepUntil(now),
                                 !.attempts = @ + 1,
                                 !.attempt_at = now,
                                 !.failures = IF ok THEN @ ELSE @ + 1]
    /\ UNCHANGED <<now, calls, responded, fetched, unswept>>

\* decode_jwt_upn applied to the token whose payload is last.claims
DecodeJwtUpn ==
    /\ last.op = "init"
    /\ last' = [last EXCEPT !.op = "decode_jwt_upn",
                             !.finished = TRUE,
                             !.returned = UpnOfPayload(last.claims)]
    /\ UNCHANGED <<token_cache, now, calls, responded, fetched, unswept, server>>

\* a tool of main.py is called; what resolution and the operations layer
\* do is given by last.tool
CallTool(name) ==
    /\ last.op = "init"
    /\ last' = [last EXCEPT
                    !.op = name,
                    !.finished = TRUE,
                    !.tool = Tool(name, last.tool.resolution,
                                  last.tool.operation)]
    /\ UNCHANGED <<token_cache, now, calls, responded, fetched, unswept, server>>

\* ------------------------------------------------------- specifications
\* the keys the service is called with: one session handle with both
\* providers, and a second session handle
ServiceKeys ==
    {k \in Sessions \X Providers : k[1] = "s1" \/ k[2] = "microsoft_graph"}

\* the service: resolution calls, one at a time, the janitor's sweeps and
\* deletes of the record of the session handle that has two providers
Next ==
    \/ \E k \in ServiceKeys : Start(1, k[1], k[2])
    \/ \E c \in Calls, o \in CacheOutcomes : Respond(c, o)
    \/ Delete("s1", "microsoft_graph")
    \/ CleanupExpired
    \/ Tick

Spec == Init /\ [][Next]_vars

\* the broker client: concurrent calls of main.py's tools for one session
\* handle, with every outcome of the request
NextClient ==
    \/ \E c \in Calls : Start(c, "s1", "microsoft_graph")
    \/ \E c \in Calls, o \in Outcomes : Respond(c, o)
    \/ Tick

SpecClient == Init /\ [][NextClient]_vars

\* the TokenCache interface called directly, with two credentials that
\* differ in every field
Credentials ==
    {[NoArgs EXCEPT !.access_token = "tokA", !.refresh_token = "ref",
                    !.microsoft_upn = "alice@contoso.com"],
     [NoArgs EXCEPT !.access_token = "tokB", !.refresh_token = NoneValue,
                    !.microsoft_upn = "unknown"]}

NextCache ==
    \/ \E s \in Sessions, a \in Credentials, ttl \in TTLs, p \in Providers :
            CacheSet(s, a, ttl, p)
    \/ \E s \in Sessions, p \in Providers : CacheGet(s, p)
    \/ \E s \in Sessions, p \in Providers : Delete(s, p)
    \/ CleanupExpired
    \/ GetStats
    \/ Tick

SpecCache == Init /\ [][NextCache]_vars

\* the databases a starting process may find: empty, or a record left by
\* an earlier run
PersistedStores ==
    {{}} \cup {{Row("s1", "tokA", "ref", "alice@contoso.com", "microsoft_graph",
                    exp, 0)} : exp \in TTLs}

InitBooting ==
    /\ token_cache \in PersistedStores
    /\ unswept = token_cache
    /\ now = 0
    /\ calls = [c \in Calls |-> IdleCall]
    /\ responded = 0
    /\ fetched = NoFetch
    /\ last = NoOp
    /\ server = Booting

\* the process from its start: startup_event, requests for one session
\* handle, and the janitor task
NextJanitor ==
    \/ \E ok \in BOOLEAN : Startup(ok)
    \/ Serve(1, "s1", "microsoft_graph")
    \/ \E c \in Calls, o \in CacheOutcomes : Respond(c, o)
    \/ SleepElapses
    \/ \E ok \in BOOLEAN : JanitorSweep(ok)
    \/ Tick

SpecJanitor == InitBooting /\ [][NextJanitor]_vars

\* the values a claim of the payload can have: missing, null, empty, or an
\* address that names the claim it belongs to
ClaimValues(name) == {Absent, NoneValue, "", name \o "@contoso.com"}

\* the payloads of the tokens decode_jwt_upn is applied to; decodable is
\* FALSE when jwt.decode raises
Payloads ==
    [decodable : BOOLEAN, upn : ClaimValues("upn"),
     preferred_username : ClaimValues("preferred_username"),
     email : ClaimValues("email"), unique_name : ClaimValues("unique_name")]

InitJwt ==
    /\ token_cache = {}
    /\ unswept = {}
    /\ now = 0
    /\ calls = [c \in Calls |-> IdleCall]
    /\ responded = 0
    /\ fetched = NoFetch
    /\ last \in {[NoOp EXCEPT !.claims = payload] : payload \in Payloads}
    /\ server = Serving

\* decode_jwt_upn as a function of the token's payload
NextJwt == DecodeJwtUpn

SpecJwt == InitJwt /\ [][NextJwt]_vars

ToolNames == {"users_get_profile", "users_search", "users_list"}

\* what get_trustyvault_token can do: return a token, raise a
\* TrustyVaultError, or let another exception through
ErrorCodes ==
    DOMAIN error_messages \cup {"unknown_error", "INVALID_RESPONSE", "token_revoked"}

Resolutions ==
    {Return(tok) : tok \in BrokerTokens}
    \cup {TrustyVaultError(code, msg, st) :
            code \in ErrorCodes,
            msg \in BrokerMessages \cup {"TrustyVault returned no access_token"},
            st \in {401, 500, 504}}
    \cup {Raise("JSONDecodeError")}

\* what the operations layer's execute returns
OperationResults ==
    {[NoDict EXCEPT !.success = TRUE, !.data = "profile"],
     [NoDict EXCEPT !.error = "Graph API error"]}

InitTools ==
    /\ token_cache = {}
    /\ unswept = {}
    /\ now = 0
    /\ calls = [c \in Calls |-> IdleCall]
    /\ responded = 0
    /\ fetched = NoFetch
    /\ last \in {[NoOp EXCEPT !.tool = [NoTool EXCEPT !.resolution = r,
                                                      !.operation = d]] :
                    r \in Resolutions, d \in OperationResults}
    /\ server = Serving

\* the tools as functions of what resolution and the operations layer do
NextTools == \E name \in ToolNames : CallTool(name)

SpecTools == InitTools /\ [][NextTools]_vars

\* a broker that issues a different access token for each key
IssuedFor(s, p) ==
    IF s = "s1" /\ p = "microsoft_graph" THEN "tokA"
    ELSE IF s = "s1" THEN "tokB"
    ELSE "tokC"

\* the answers of that broker to a request for (s, p)
IssuedOutcomes(s, p) ==
    {o \in Outcomes :
        /\ o.kind = "response" /\ o.status_code = HTTP_OK
        /\ o.body.access_token = IssuedFor(s, p)
        /\ o.body.expires_in_seconds \in {<<>>, <<MaxTTL>>}}

\* concurrent calls for several session handles and providers, answered
\* by a broker whose tokens tell the keys apart
NextIsolation ==
    \/ \E c \in Calls, k \in ServiceKeys : Start(c, k[1], k[2])
    \/ \E c \in Calls :
            \E o \in IssuedOutcomes(calls[c].session_token, calls[c].provider) :
                Respond(c, o)
    \/ Tick

SpecIsolation == Init /\ [][NextIsolation]_vars

\* a periodic sweep of a janitor whose sweeps eventually succeed: the last
\* sweep of the run does not fail
JanitorSweepEventually(ok) ==
    /\ ok \/ server.attempts + 1 < MaxSweeps
    /\ JanitorSweep(ok)

NextEviction ==
    \/ \E ok \in BOOLEAN : Startup(ok)
    \/ Serve(1, "s1", "microsoft_graph")
    \/ \E c \in Calls, o \in CacheOutcomes : Respond(c, o)
    \/ SleepElapses
    \/ \E ok \in BOOLEAN : JanitorSweepEventually(ok)
    \/ Tick

\* the process with a clock that keeps advancing and an event loop that
\* runs the janitor task when its sleep is over
SpecEviction ==
    /\ InitBooting
    /\ [][NextEviction]_vars
    /\ WF_vars(SleepElapses)
    /\ WF_vars(\E ok \in BOOLEAN : JanitorSweepEventually(ok))

TypeOK ==
    /\ now \in Times \cup {server.started_at + n * CLEANUP_INTERVAL : n \in 1..MaxSweeps}
    /\ server.phase \in {"starting", "serving", "failed"}
    /\ server.janitor \in {"none", "sleeping", "ended"}
    /\ server.attempts \in 0..MaxSweeps
    /\ \A r \in token_cache : r.session_token \in Sessions /\ r.provider \in Providers
    /\ \A c \in Calls : calls[c].pc \in {"idle", "awaiting"}

\* ---------------------------------------------------------- properties
\* C1: TokenCache.get returns a record only if its expires_at is strictly
\* greater than the time of the read, swept or not; the record is the one
\* of the key that was asked for.
NoStaleReads ==
    last.hit =>
        /\ last.row.expires_at > last.at
        /\ last.row.session_token = last.session_token
        /\ last.row.provider = last.provider
        /\ last.result.access_token = last.row.access_token

\* a read of a key whose record has expired and is still in the table
ExpiredRecordNotReturned ==
    /\ last.op = "get"
    /\ ~last.hit
    /\ \E r \in RowsOf(token_cache, last.session_token, last.provider) :
            r.expires_at <= last.at

\* C2: a write for one (session handle, provider) leaves the records of
\* every other (session handle, provider) as they were.
WriteKeepsOtherKeys ==
    [][\A s \in Sessions, p \in Providers :
          (last'.wrote /\ <<last'.session_token, last'.provider>> # <<s, p>>)
              => RowsOf(token_cache', s, p) = RowsOf(token_cache, s, p)]_vars

\* C3: a call made while the store holds a valid record for its key returns
\* that record's access token and sends nothing to the broker.
CacheFirst ==
    /\ \A c \in Calls : calls[c].pc = "awaiting" => calls[c].cached = Absent
    /\ (last.finished /\ last.cached # Absent) =>
            /\ last.requests = 0
            /\ last.returned = Return(last.cached)

\* a call answered from the cache
CallAnsweredFromCache ==
    /\ last.finished
    /\ last.cached # Absent
    /\ last.requests = 0
    /\ last.returned.kind = "return"

\* C4: a fetch that is stored costs one broker request, and every later call
\* for its key before the stored expiry returns its token without a request.
FetchAndCache ==
    /\ (last.finished /\ last.wrote) => last.requests = 1
    /\ \A c \in Calls : calls[c].pc = "awaiting" => calls[c].expected = Absent
    /\ (last.finished /\ last.expected # Absent) =>
            /\ last.requests = 0
            /\ last.returned = Return(last.expected)

\* C5: one call sends at most one request; a call that got an outcome from
\* the broker sent exactly one, whatever the outcome.
AtMostOneRequest ==
    last.finished =>
        /\ last.requests <= 1
        /\ last.outcome.kind # "none" => last.requests = 1
        /\ last.outcome.kind = "none" => last.requests = 0

\* a call that raised after its one request
CallRaisedAfterOneRequest ==
    /\ last.finished
    /\ last.returned.kind = "raise"
    /\ last.requests = 1

\* C6: after TokenCache.set there is exactly one record for the key, and
\* all its fields are those of this call.
IdempotentOverwrite ==
    last.wrote =>
        RowsOf(token_cache, last.session_token, last.provider) =
            {Row(last.session_token, last.access_token, last.refresh_token,
                 last.microsoft_upn, last.provider,
                 last.at + last.expires_in_seconds, last.at)}

\* a second set for a key whose record differed in every field
SecondSetReplacedRecord == last.wrote /\ last.replaced

\* C7: right after cleanup_expired, at the same clock value, get_stats
\* counts no expired record.
SweepCompleteness ==
    (last.op = "cleanup_expired" /\ last.at = now) =>
        get_stats(token_cache, now).expired_tokens = 0

\* C8: a non-success response with {"detail": {"error": c, "message": m}}
\* raises TrustyVaultError(c, m, status of the response).
RejectionShape(o) ==
    /\ o.kind = "response"
    /\ o.status_code # HTTP_OK
    /\ o.body.json = "object"
    /\ o.body.detail = "map"
    /\ o.body.error # Absent
    /\ o.body.message # Absent

BrokerRejection ==
    (last.finished /\ RejectionShape(last.outcome)) =>
        last.returned = TrustyVaultError(last.outcome.body.error,
                                         last.outcome.body.message,
                                         last.outcome.status_code)

\* the 401 of the scenario
UnauthorizedRejected ==
    /\ last.finished
    /\ RejectionShape(last.outcome)
    /\ last.outcome.status_code = 401
    /\ last.returned.error_code = "unauthorized"
    /\ last.returned.message = "bad api key"

\* C9: whatever the broker sent, a failing call raises TrustyVaultError, with
\* code unknown_error when a non-success body has not the fixed shape.
TypedErrorsOnly ==
    (last.finished /\ last.outcome.kind = "response"
                   /\ last.returned.kind = "raise") =>
        /\ last.returned.exc = "TrustyVaultError"
        /\ (last.outcome.status_code # HTTP_OK /\ ~RejectionShape(last.outcome)
              /\ last.outcome.body.error = Absent)
            => last.returned.error_code = "unknown_error"

\* C10 as stated: a timeout raises TIMEOUT, another transport failure raises
\* CONNECTION_ERROR, and neither code comes out for a response that was sent.
TransportCodesOnlyForTransport ==
    last.finished =>
        /\ last.outcome.kind = "timeout" =>
              (last.returned.exc = "TrustyVaultError" /\
               last.returned.error_code = "TIMEOUT")
        /\ last.outcome.kind = "connect_error" =>
              (last.returned.exc = "TrustyVaultError" /\
               last.returned.error_code = "CONNECTION_ERROR")
        /\ last.returned.error_code \in {"TIMEOUT", "CONNECTION_ERROR"} =>
              last.outcome.kind # "response"

\* C10 amended: a timeout raises TIMEOUT, another transport failure raises
\* CONNECTION_ERROR, and for a response that was sent either code comes out
\* only as the code the broker's own error body carries.
TransportFailure ==
    last.finished =>
        /\ last.outcome.kind = "timeout" =>
              (last.returned.exc = "TrustyVaultError" /\
               last.returned.error_code = "TIMEOUT")
        /\ last.outcome.kind = "connect_error" =>
              (last.returned.exc = "TrustyVaultError" /\
               last.returned.error_code = "CONNECTION_ERROR")
        /\ (last.outcome.kind = "response" /\
            last.returned.error_code \in {"TIMEOUT", "CONNECTION_ERROR"}) =>
              /\ last.outcome.status_code # HTTP_OK
              /\ last.outcome.body.error = last.returned.error_code

\* a request that timed out
TimeoutRaised ==
    /\ last.finished
    /\ last.outcome.kind = "timeout"
    /\ last.returned.error_code = "TIMEOUT"


\* the broker answered 200 with a JSON object whose access_token is missing
\* or empty
AnsweredWithoutToken(o) ==
    /\ o.finished
    /\ o.outcome.kind = "response"
    /\ o.outcome.status_code = 200
    /\ o.outcome.body.json = "object"
    /\ o.outcome.body.access_token \in {"", Absent}

\* C11: when the broker answers with success status and the access token
\* is missing or empty, get_trustyvault_token raises TrustyVaultError
\* INVALID_RESPONSE, leaves the store as it was and has made one request.
InvalidResponse ==
    [][AnsweredWithoutToken(last') =>
            /\ last'.returned =
                 TrustyVaultError("INVALID_RESPONSE",
                                  "TrustyVault returned no access_token", 500)
            /\ last'.requests = 1
            /\ ~last'.wrote
            /\ token_cache' = token_cache]_vars

\* an empty access token was refused while a record was in the store
EmptyTokenRefused ==
    /\ AnsweredWithoutToken(last)
    /\ last.outcome.body.access_token = ""
    /\ last.returned.error_code = "INVALID_RESPONSE"
    /\ token_cache # {}

\* the broker answered 200 with an access token that is not a JWT or that
\* carries none of upn, preferred_username, email, unique_name
AnsweredWithoutIdentity(o) ==
    /\ o.finished
    /\ o.outcome.kind = "response"
    /\ o.outcome.status_code = 200
    /\ o.outcome.body.json = "object"
    /\ o.outcome.body.access_token \in BrokerTokens
    /\ LET d == JwtDecode(o.outcome.body.access_token) IN
       \/ ~d.decodable
       \/ {d.upn, d.preferred_username, d.email, d.unique_name}
            \subseteq {"", Absent, NoneValue}

\* C12: when no identity can be extracted from the access token the broker
\* returned, get_trustyvault_token returns that token and has stored it in
\* a record whose microsoft_upn is "unknown".
IdentityFailureTolerated ==
    AnsweredWithoutIdentity(last) =>
        /\ last.returned = Return(last.outcome.body.access_token)
        /\ last.wrote
        /\ last.microsoft_upn = "unknown"
        /\ \E r \in RowsOf(token_cache, last.session_token, last.provider) :
                /\ r.access_token = last.outcome.body.access_token
                /\ r.microsoft_upn = "unknown"

\* a JWT without any of the four claims was fetched and returned
ClaimlessTokenReturned ==
    /\ AnsweredWithoutIdentity(last)
    /\ JwtDecode(last.outcome.body.access_token).decodable
    /\ last.returned.kind = "return"

\* C13: after any sequence of get_trustyvault_token calls, sweeps and
\* deletes, every record in the store has a non-empty access_token.
StoredTokenNonEmpty ==
    \A r \in token_cache : r.access_token \notin {"", Absent, NoneValue}

\* the broker sent an empty access token while the store held a record
EmptyTokenOffered ==
    /\ last.finished
    /\ last.outcome.kind = "response"
    /\ last.outcome.status_code = 200
    /\ last.outcome.body.access_token = ""
    /\ \E r \in token_cache : r.session_token = last.session_token

ConcurrentMisses ==
    (last.finished /\ last.wrote) =>
        /\ last.requests = 1
        /\ last.cached = Absent
        /\ last.returned = Return(last.outcome.body.access_token)
        /\ RowsOf(token_cache, last.session_token, last.provider) =
             {Row(last.session_token, last.access_token, last.refresh_token,
                  last.microsoft_upn, last.provider,
                  last.at + last.expires_in_seconds, last.at)}
        /\ last.access_token = last.outcome.body.access_token

\* the second of two overlapping calls wrote a different token with an
\* earlier expiry than the first
SecondWriterWon ==
    /\ last.finished
    /\ last.wrote
    /\ last.overtaken
    /\ last.replaced
    /\ last.expires_in_seconds < 3600

\* C16: what a get_trustyvault_token call finds in the cache, and with it
\* the value it returns and whether it makes a request, is at every point
\* the same in the store that is swept at arbitrary points and in the store
\* of the same calls, answers and clock advances that is never swept.
ReadsIgnoreJanitor ==
    \A s \in Sessions, p \in Providers :
        LET swept == get(token_cache, s, p, now)
            never == get(unswept, s, p, now) IN
        /\ swept.hit = never.hit
        /\ swept.result = never.result

\* a call missed on a key whose expired record a sweep had removed
MissAfterSweep ==
    /\ last.op = "get_trustyvault_token"
    /\ ~last.hit
    /\ RowsOf(token_cache, last.session_token, last.provider) = {}
    /\ RowsOf(unswept, last.session_token, last.provider) # {}

\* some request has begun
RequestBegun ==
    \/ last.op = "get_trustyvault_token"
    \/ \E c \in Calls : calls[c].pc # "idle"

\* C17: no request begins before the startup sweep has completed; while the
\* process serves, the janitor is in its sleep, the n-th periodic sweep was
\* attempted n * 3600 s after startup and the next one is due 3600 s later,
\* a time the clock has not passed.
JanitorSchedule ==
    /\ RequestBegun => server.phase = "serving"
    /\ server.phase = "serving" =>
        /\ server.janitor = "sleeping"
        /\ server.attempts > 0 =>
              server.attempt_at = server.started_at + server.attempts * 3600
        /\ server.wake_at = server.started_at + (server.attempts + 1) * 3600
        /\ now <= server.wake_at

\* two periodic sweeps were attempted by a process that started after time 0
\* and has served a request
TwoPeriodicSweeps ==
    /\ server.attempts = 2
    /\ server.started_at > 0
    /\ last.op = "cleanup_expired_tokens_task"
    /\ token_cache # {}

\* C18: after any number of failed periodic sweeps the janitor loop is still
\* running, and after a failed sweep the next one is due one interval later.
SweepFailureSurvived ==
    /\ server.failures > 0 => server.janitor = "sleeping"
    /\ (last.op = "cleanup_expired_tokens_task" /\ last.failed) =>
            server.wake_at = last.at + 3600

\* a periodic sweep succeeded one interval after one that failed
SweepAfterFailedSweep ==
    /\ last.op = "cleanup_expired_tokens_task"
    /\ ~last.failed
    /\ server.failures = 1
    /\ server.attempts = 2

\* C19: a failing cleanup_expired is swallowed in every sweep path: after a
\* failed startup sweep startup has completed and the janitor is started,
\* and after a failed periodic sweep the janitor is still running.
SweepFailureSwallowed ==
    /\ (last.op = "startup_event" /\ last.failed) =>
            server.phase = "serving" /\ server.janitor = "sleeping"
    /\ (last.op = "cleanup_expired_tokens_task" /\ last.failed) =>
            server.phase = "serving" /\ server.janitor = "sleeping"

\* the operation is a TokenCache.get: one called directly, or the lookup
\* get_trustyvault_token begins with, before any answer of the broker
IsRead(o) ==
    \/ o.op = "get"
    \/ o.op = "get_trustyvault_token" /\ o.outcome.kind = "none"

\* C20: TokenCache.get writes only on a hit: the record it returns gets
\* last_used_at = the time of the read and nothing else in the store
\* changes; when it returns nothing the store is left as it was.
GetWritesOnlyOnHit ==
    [][(IsRead(last') /\ now' = now) =>
            IF last'.hit
            THEN token_cache' =
                    (token_cache \ {last'.row})
                        \cup {[last'.row EXCEPT !.last_used_at = last'.at]}
            ELSE token_cache' = token_cache]_vars

\* a read returned a record last used earlier while the store held an
\* expired record of another session handle
HitTouchedOneRecord ==
    /\ IsRead(last)
    /\ last.hit
    /\ last.row.last_used_at < last.at
    /\ \E r \in token_cache :
            /\ r.session_token # last.session_token
            /\ r.expires_at <= last.at
            /\ r.last_used_at < last.at

\* C21: get_stats partitions the store against the time of the call:
\* total = valid + expired, expired counts the records with
\* expires_at <= now, valid counts the records get would return, and
\* health_check reports the three numbers unchanged.
StatsPartition ==
    last.op = "get_stats" =>
        /\ last.stats.total_tokens =
              last.stats.valid_tokens + last.stats.expired_tokens
        /\ last.stats.total_tokens = Cardinality(token_cache)
        /\ last.stats.expired_tokens =
              Cardinality({r \in token_cache : r.expires_at <= last.at})
        /\ last.stats.valid_tokens =
              Cardinality({r \in token_cache :
                  get(token_cache, r.session_token, r.provider, last.at).row = r})
        /\ last.health = last.stats

\* statistics taken while the store held a valid record and one that
\* expired in this very second and was not swept
StatsWithUnsweptRecord ==
    /\ last.op = "get_stats"
    /\ last.stats.valid_tokens >= 1
    /\ last.stats.expired_tokens >= 1
    /\ \E r \in token_cache : r.expires_at = last.at

\* C22: TokenCache.delete(s, p) leaves the store without a record of
\* (s, p), so that get(s, p) returns nothing, and with every record of
\* another session handle or another provider unchanged, whether there was
\* a record of (s, p) or not.
DeleteRemovesOnlyItsKey ==
    [][(last'.op = "delete" /\ now' = now) =>
            /\ token_cache' =
                 {r \in token_cache :
                    \/ r.session_token # last'.session_token
                    \/ r.provider # last'.provider}
            /\ ~get(token_cache', last'.session_token, last'.provider, now).hit
      ]_vars

\* a record was deleted while the store held records of other keys
DeletedOneOfSeveral ==
    /\ last.op = "delete"
    /\ last.deleted_count = 1
    /\ token_cache # {}

\* the claims of the payload in the order of precedence
ClaimsInOrder(d) == <<d.upn, d.preferred_username, d.email, d.unique_name>>

\* C23 as stated: decode_jwt_upn returns the value of the first claim, in
\* the order upn, preferred_username, email, unique_name, that is present
\* in the payload.
FirstPresentClaimWins ==
    (last.op = "decode_jwt_upn" /\ last.claims.decodable) =>
        \A i \in 1..4 :
            (/\ ClaimsInOrder(last.claims)[i] # Absent
             /\ \A j \in 1..(i - 1) : ClaimsInOrder(last.claims)[j] = Absent)
            => last.returned = Return(ClaimsInOrder(last.claims)[i])

\* C23: decode_jwt_upn returns the value of the first claim, in the order
\* upn, preferred_username, email, unique_name, whose value is neither
\* missing, null nor empty; a payload whose only such claim is email yields
\* the email value.
FirstNonEmptyClaimWins ==
    (last.op = "decode_jwt_upn" /\ last.claims.decodable) =>
        \A i \in 1..4 :
            (/\ ClaimsInOrder(last.claims)[i] \notin {Absent, NoneValue, ""}
             /\ \A j \in 1..(i - 1) :
                    ClaimsInOrder(last.claims)[j] \in {Absent, NoneValue, ""})
            => last.returned = Return(ClaimsInOrder(last.claims)[i])

\* a payload with email and unique_name and neither upn nor
\* preferred_username gave the email value
EmailOnlyYieldsEmail ==
    /\ last.op = "decode_jwt_upn"
    /\ last.claims.decodable
    /\ last.claims.upn = Absent
    /\ last.claims.preferred_username = Absent
    /\ last.claims.email = "email@contoso.com"
    /\ last.claims.unique_name = "unique_name@contoso.com"
    /\ last.returned = Return("email@contoso.com")

\* C24: decode_jwt_upn raises ValueError when the token cannot be decoded
\* and when none of the four claims has a value; it raises nothing else
\* and never returns None or an empty identity.
ExtractionFailsWithValueError ==
    last.op = "decode_jwt_upn" =>
        /\ last.returned.kind \in {"return", "raise"}
        /\ last.returned.kind = "raise" => last.returned.exc = "ValueError"
        /\ last.returned.kind = "return" =>
                last.returned.value \notin {Absent, NoneValue, ""}
        /\ (\/ ~last.claims.decodable
            \/ \A i \in 1..4 :
                  ClaimsInOrder(last.claims)[i] \in {Absent, NoneValue, ""})
            => last.returned = Raise("ValueError")

\* a token that decodes to a payload without any of the four claims
\* raised ValueError
ClaimlessPayloadRaised ==
    /\ last.op = "decode_jwt_upn"
    /\ last.claims.decodable
    /\ \A i \in 1..4 : ClaimsInOrder(last.claims)[i] = Absent
    /\ last.returned = Raise("ValueError")

\* the six codes with a fixed guidance string
GuidanceCodes ==
    {"session_expired", "invalid_session", "unauthorized",
     "provider_not_configured", "TIMEOUT", "CONNECTION_ERROR"}

\* C25: when resolution raises a TrustyVaultError e, every tool returns the
\* dictionary of format_trustyvault_error(e): success = false, error =
\* e.error_code, details with e.message and e.status_code, and as message
\* the fixed guidance string of the code when it is one of the six codes
\* and a text built from e.message otherwise.
ToolBoundaryTranslation ==
    (last.op \in ToolNames /\ last.tool.resolution.exc = "TrustyVaultError") =>
        LET e == last.tool.resolution
            d == last.tool.result IN
        /\ last.tool.outcome = "returned"
        /\ d.success = FALSE
        /\ d.error = e.error_code
        /\ d.details.trustyvault_error = e.message
        /\ d.details.status_code = e.status_code
        /\ e.error_code \in GuidanceCodes =>
                /\ d.message = error_messages[e.error_code]
                /\ \A c \in GuidanceCodes \ {e.error_code} :
                        d.message # error_messages[c]
        /\ e.error_code \notin GuidanceCodes =>
                d.message = "TrustyVault error: " \o e.message

\* a tool translated a TrustyVaultError whose code has no guidance string
UnlistedCodeTranslated ==
    /\ last.op = "users_search"
    /\ last.tool.resolution.error_code = "INVALID_RESPONSE"
    /\ last.tool.result.message =
          "TrustyVault error: TrustyVault returned no access_token"

\* C30: every tool returns a dictionary and never raises; when resolution
\* returns a token from which the identity is extracted, the tool calls
\* execute once with that token and identity and returns what execute
\* returned.
ToolSuccessPath ==
    last.op \in ToolNames =>
        /\ last.tool.outcome = "returned"
        /\ (/\ last.tool.resolution.kind = "return"
            /\ JwtDecode(last.tool.resolution.value).upn # Absent) =>
                /\ last.tool.executed = 1
                /\ last.tool.access_token = last.tool.resolution.value
                /\ last.tool.microsoft_user =
                      JwtDecode(last.tool.resolution.value).upn
                /\ last.tool.result = last.tool.operation

\* C26: a get_trustyvault_token call that raises leaves the store as it
\* was: neither its cache lookup, which missed, nor the handling of the
\* broker's answer creates, replaces, removes or touches a record.
RaisingCallLeavesStore ==
    [][(/\ last'.op = "get_trustyvault_token"
        /\ \/ ~last'.finished
           \/ last'.returned.kind = "raise") =>
            token_cache' = token_cache]_vars

\* a call raised a TrustyVaultError while the expired record of its key
\* was in the store, and the record is still there
RaisedOverExpiredRecord ==
    /\ last.op = "get_trustyvault_token"
    /\ last.finished
    /\ last.returned.exc = "TrustyVaultError"
    /\ \E r \in RowsOf(token_cache, last.session_token, last.provider) :
            r.expires_at <= last.at

\* C27: with a broker that issues a different token for each key, the
\* access token a call for (s, p) returns is the one issued for (s, p),
\* whether it comes from the cache or from the call's own request.
KeyIsolation ==
    (last.op = "get_trustyvault_token" /\ last.returned.kind = "return") =>
        last.returned.value = IssuedFor(last.session_token, last.provider)

\* a call was answered from the cache while the store held a valid record
\* of another session handle
HitBesideOtherSession ==
    /\ last.op = "get_trustyvault_token"
    /\ last.hit
    /\ last.returned.kind = "return"
    /\ \E r \in token_cache :
            /\ r.session_token # last.session_token
            /\ r.expires_at > last.at

\* C28: cleanup_expired removes no record with expires_at > now, adds and
\* changes none, and returns the number of records it removed, at whatever
\* point of a resolution call it runs.
SweepSparesValidRecords ==
    [][(last'.op = "cleanup_expired" /\ now' = now) =>
            /\ token_cache' \subseteq token_cache
            /\ \A r \in token_cache : r.expires_at > now => r \in token_cache'
            /\ last'.deleted_count =
                  Cardinality(token_cache \ token_cache')]_vars

\* a sweep ran between a call's cache miss and its write: it removed an
\* expired record and left a valid one that expires within the second
SweepDuringCall ==
    /\ last.op = "cleanup_expired"
    /\ last.deleted_count >= 1
    /\ \E c \in Calls : calls[c].pc = "awaiting"
    /\ \E r \in token_cache : r.expires_at = last.at + 1

\* the times at which records are written and the expiry times they get
WriteTimes ==
    Times \cup {t + n * CLEANUP_INTERVAL : t \in Times, n \in 1..MaxSweeps}

ExpiryTimes ==
    {t + ttl : t \in WriteTimes, ttl \in TTLs \cup {DEFAULT_EXPIRES_IN}}

\* a record with expiry time e is in the store, it has expired, and a
\* sweep at a later clock value is still to come
ExpiredAwaitingSweep(e) ==
    /\ server.phase = "serving"
    /\ \E r \in token_cache : r.expires_at = e
    /\ e <= now
    /\ e < server.wake_at
    /\ server.attempts < MaxSweeps

\* C29: while the clock advances and sweeps are scheduled and eventually
\* succeed, a record that has expired is eventually no longer in the store,
\* also when its expires_at equalled the clock at an earlier sweep.
EventualEviction ==
    \A e \in ExpiryTimes :
        ExpiredAwaitingSweep(e) ~> ~(\E r \in token_cache : r.expires_at = e)

\* the record fetched at startup with the default TTL expired at the very
\* second of the first periodic sweep, which left it in place; the second
\* sweep removed it
EvictedBySecondSweep ==
    /\ last.op = "cleanup_expired_tokens_task"
    /\ ~last.failed
    /\ server.attempts = 2
    /\ last.deleted_count >= 1
    /\ fetched.expires_at = server.started_at + CLEANUP_INTERVAL
    /\ server.failures = 0
    /\ token_cache = {}
====
